---- MODULE Spec2Model ----
(***************************************************************************)
(* A model of fw (src/main.rs): the text transform, the command line, and  *)
(* the clipboard lifetime management of set_clipboard, with its fork.      *)
(*                                                                         *)
(* Characters are Unicode code points (integers); a string is a sequence   *)
(* of code points.  The two processes are "parent" (the invoked process)   *)
(* and "child" (the copy that libc::fork() creates in Background mode).    *)
(***************************************************************************)
EXTENDS Integers, Sequences, FiniteSets, TLC

VARIABLES
    flags,       \* the clipboard flags given on the command line
    words,       \* the positional arguments ("text"), a sequence of strings
    stdinData,   \* what standard input holds
    env,         \* the environment: variable -> <<>> (unset) or <<value>>
    pc,          \* each process's position in the code
    parsed,      \* get_matches() has accepted the command line
    wordIdx,     \* how many words the loop of run() has consumed
    text,        \* run()'s `text` buffer
    stdout,      \* the lines printed to standard output
    stderr,      \* the messages printed to standard error, with their process
    mode,        \* the WaitMode run() chose, "None" before that
    waitArg,     \* inner()'s `wait` argument, per process
    handles,     \* each process's Clipboard: "none", "live" or "dropped"
    threads,     \* each process's number of threads
    result,      \* the anyhow::Result each process holds: "none", "Ok" or an error
    exitCode,    \* <<>> while the process runs, <<code>> once it exited
    clipboard,   \* the system clipboard: its owner and contents
    log          \* the observable events, in the order they happened

vars == << flags, words, stdinData, env, pc, parsed, wordIdx, text, stdout,
           stderr, mode, waitArg, handles, threads, result, exitCode,
           clipboard, log >>

(***************************************************************************)
(* Bounds of the inputs.                                                   *)
(***************************************************************************)
MaxArgs == 3
MaxWordLen == 1
MaxStdinLen == 3

Procs == {"parent", "child"}
ClipboardArgs == {"no-clipboard", "no-wait", "foreground-wait"}
EnvVars == {"DISPLAY", "XDG_CURRENT_DESKTOP"}
\* std::env::var_os: None, Some("") or Some(non-empty)
EnvValues == { <<>>, <<"">>, <<":0">> }

NEWLINE == 10
SPACE == 32

\* Code points around every boundary of fw_char's match arms, and the ends of
\* the ranges of Unicode scalar values.
CharSamples == (0..255) \cup (12286..12290) \cup (65279..65376)
                 \cup {55295, 57344, 1114111}
JoinChars == {SPACE, 97}
StdinChars == {NEWLINE, SPACE, 97}

SeqsUpTo(S, n) == UNION { [1..k -> S] : k \in 0..n }

(***************************************************************************)
(* The character transform.                                                *)
(***************************************************************************)
WIDE_SPACE == 12288
FULLWIDTH_OFFSET == 65248

NoChar == << >>

\* char::from_u32: Some(n) for a Unicode scalar value, None otherwise
from_u32(n) ==
    IF (0 <= n /\ n <= 55295) \/ (57344 <= n /\ n <= 1114111)
    THEN <<n>> ELSE NoChar

\* Option::unwrap: the value, or a panic (-1 stands for the panic)
unwrap(opt) == IF opt = NoChar THEN -1 ELSE opt[1]

fw_char_stops_before_tilde(c) ==
    IF c = SPACE THEN WIDE_SPACE
    ELSE IF 33 <= c /\ c < 126 THEN unwrap(from_u32(c + FULLWIDTH_OFFSET))
    ELSE c

fw_char(c) ==
    IF c = SPACE THEN WIDE_SPACE
    ELSE IF 33 <= c /\ c <= 126 THEN unwrap(from_u32(c + FULLWIDTH_OFFSET))
    ELSE c

\* s.chars().map(fw_char)
fw_chars(s) == [i \in 1..Len(s) |-> fw_char(s[i])]

word_chunk_always_spaced(word, more) == fw_chars(word) \o <<WIDE_SPACE>>

\* lines 137-140: the transformed word, and a wide space if a word follows
word_chunk(word, more) ==
    fw_chars(word) \o (IF more THEN <<WIDE_SPACE>> ELSE << >>)

strip_every_trailing_newline(input) ==
    LET keep == { n \in 0..Len(input) :
                    \A i \in (n+1)..Len(input) : input[i] = NEWLINE }
        n == CHOOSE k \in keep : \A j \in keep : k <= j
    IN  SubSeq(input, 1, n)

\* lines 149-151: input.pop() if input.ends_with('\n')
strip_trailing_newline(input) ==
    IF Len(input) > 0 /\ input[Len(input)] = NEWLINE
    THEN SubSeq(input, 1, Len(input) - 1)
    ELSE input

(***************************************************************************)
(* The command line and the environment.                                   *)
(***************************************************************************)
\* ArgMatches::get_flag, on the accepted command line
get_flag(name) == parsed /\ name \in flags

env_is_set(var) == env[var] # << >>

\* lines 78-83
env_is_nonempty(var) ==
    IF env[var] # << >> THEN env[var][1] # "" ELSE FALSE

wait_mode_desktop_ignored ==
    IF get_flag("no-wait") THEN "NoWait"
    ELSE IF get_flag("foreground-wait") THEN "Foreground"
    ELSE "Background"

\* lines 157-170: the WaitMode run() passes to set_clipboard
wait_mode ==
    IF get_flag("no-wait") THEN "NoWait"
    ELSE IF get_flag("foreground-wait") THEN "Foreground"
    ELSE IF env_is_nonempty("XDG_CURRENT_DESKTOP") THEN "NoWait"
    ELSE "Background"

Event(e, p, a) == [ev |-> e, proc |-> p, arg |-> a]
Message(p, prefix, err) == [proc |-> p, prefix |-> prefix, err |-> err]

(***************************************************************************)
(* The initial states: a command line, an environment, a standard input.   *)
(* Every combination of flags and environment is run on a short text, and  *)
(* every text of the bounds is run with no flag and an empty environment.  *)
(***************************************************************************)
TextInputs ==
    { [words |-> w, stdinData |-> << >>] :
        w \in (SeqsUpTo(SeqsUpTo(JoinChars, MaxWordLen), MaxArgs) \ { << >> })
              \cup { << <<c>> >> : c \in CharSamples } }
    \cup
    { [words |-> << >>, stdinData |-> s] :
        s \in SeqsUpTo(StdinChars, MaxStdinLen) \cup { <<c>> : c \in CharSamples } }

ShortInputs ==
    { [words |-> << <<97>>, <<SPACE>> >>, stdinData |-> << >>],
      [words |-> << >>, stdinData |-> <<97, NEWLINE>>] }

Init ==
    /\ \/ /\ flags \in SUBSET ClipboardArgs
          /\ env \in [EnvVars -> EnvValues]
          /\ \E i \in ShortInputs : words = i.words /\ stdinData = i.stdinData
       \/ /\ flags = {}
          /\ env = [v \in EnvVars |-> << >>]
          /\ \E i \in TextInputs : words = i.words /\ stdinData = i.stdinData
    /\ pc = [p \in Procs |-> IF p = "parent" THEN "start" ELSE "absent"]
    /\ parsed = FALSE
    /\ wordIdx = 0
    /\ text = << >>
    /\ stdout = << >>
    /\ stderr = << >>
    /\ mode = "None"
    /\ waitArg = [p \in Procs |-> FALSE]
    /\ handles = [p \in Procs |-> "none"]
    /\ threads = [p \in Procs |-> IF p = "parent" THEN 1 ELSE 0]
    /\ result = [p \in Procs |-> "none"]
    /\ exitCode = [p \in Procs |-> << >>]
    /\ clipboard = [owner |-> "other", data |-> << >>]
    /\ log = << >>

(***************************************************************************)
(* run(), up to the printing of the text.                                  *)
(***************************************************************************)
\* lines 86-131: clap accepts at most one argument of the group
get_matches ==
    /\ pc["parent"] = "start"
    /\ IF Cardinality(flags \cap ClipboardArgs) > 1
       THEN /\ parsed' = FALSE
            /\ stderr' = Append(stderr,
                                Message("parent", "error", "argument conflict"))
            /\ exitCode' = [exitCode EXCEPT !["parent"] = <<2>>]
            /\ pc' = [pc EXCEPT !["parent"] = "exited"]
            /\ log' = log \o << Event("stderr", "parent", 0),
                                Event("exit", "parent", 2) >>
       ELSE /\ parsed' = TRUE
            /\ pc' = [pc EXCEPT !["parent"] = "collect"]
            /\ UNCHANGED << stderr, exitCode, log >>
    /\ UNCHANGED << flags, words, stdinData, env, wordIdx, text, stdout, mode,
                    waitArg, handles, threads, result, clipboard >>

\* lines 134-141: one iteration of the loop over the positional arguments
next_word ==
    /\ pc["parent"] = "collect"
    /\ words # << >>
    /\ wordIdx < Len(words)
    /\ text' = text \o word_chunk(words[wordIdx + 1], wordIdx + 1 < Len(words))
    /\ wordIdx' = wordIdx + 1
    /\ pc' = [pc EXCEPT !["parent"] =
                 IF wordIdx + 1 = Len(words) THEN "println" ELSE "collect"]
    /\ UNCHANGED << flags, words, stdinData, env, parsed, stdout, stderr, mode,
                    waitArg, handles, threads, result, exitCode, clipboard,
                    log >>

\* lines 142-153: read all of standard input; the read may fail
read_stdin ==
    /\ pc["parent"] = "collect"
    /\ words = << >>
    /\ \E ok \in BOOLEAN :
         IF ok
         THEN /\ text' = text \o fw_chars(strip_trailing_newline(stdinData))
              /\ pc' = [pc EXCEPT !["parent"] = "println"]
              /\ UNCHANGED result
         ELSE /\ result' = [result EXCEPT !["parent"] = "failed to read stdin"]
              /\ pc' = [pc EXCEPT !["parent"] = "run_ret"]
              /\ UNCHANGED text
    /\ log' = Append(log, Event("read_stdin", "parent", 0))
    /\ UNCHANGED << flags, words, stdinData, env, parsed, wordIdx, stdout,
                    stderr, mode, waitArg, handles, threads, exitCode,
                    clipboard >>

println_skipped ==
    /\ pc["parent"] = "println"
    /\ pc' = [pc EXCEPT !["parent"] = "clip_check"]
    /\ UNCHANGED << flags, words, stdinData, env, parsed, wordIdx, text, stdout,
                    stderr, mode, waitArg, handles, threads, result, exitCode,
                    clipboard, log >>

\* line 154
println ==
    /\ pc["parent"] = "println"
    /\ stdout' = Append(stdout, text)
    /\ log' = Append(log, Event("print", "parent", 0))
    /\ pc' = [pc EXCEPT !["parent"] = "clip_check"]
    /\ UNCHANGED << flags, words, stdinData, env, parsed, wordIdx, text, stderr,
                    mode, waitArg, handles, threads, result, exitCode,
                    clipboard >>

\* lines 156-175: skip the clipboard, or choose the mode and call set_clipboard
clip_check ==
    /\ pc["parent"] = "clip_check"
    /\ IF ~get_flag("no-clipboard") /\ env_is_nonempty("DISPLAY")
       THEN /\ mode' = wait_mode
            /\ pc' = [pc EXCEPT !["parent"] = "set_clipboard"]
            /\ UNCHANGED result
       ELSE /\ result' = [result EXCEPT !["parent"] = "Ok"]
            /\ pc' = [pc EXCEPT !["parent"] = "run_ret"]
            /\ UNCHANGED mode
    /\ UNCHANGED << flags, words, stdinData, env, parsed, wordIdx, text, stdout,
                    stderr, waitArg, handles, threads, exitCode, clipboard,
                    log >>

(***************************************************************************)
(* set_clipboard() and inner().                                            *)
(***************************************************************************)
\* lines 37-40: the arm of `match wait` that does not fork calls inner(text, _)
set_clipboard ==
    /\ pc["parent"] = "set_clipboard"
    /\ IF mode = "Background"
       THEN /\ pc' = [pc EXCEPT !["parent"] = "fork"]
            /\ UNCHANGED waitArg
       ELSE /\ pc' = [pc EXCEPT !["parent"] = "inner_new"]
            /\ waitArg' = [waitArg EXCEPT !["parent"] = (mode = "Foreground")]
    /\ UNCHANGED << flags, words, stdinData, env, parsed, wordIdx, text, stdout,
                    stderr, mode, handles, threads, result, exitCode,
                    clipboard, log >>

fork_arm_failure_ignored(rv) ==
    IF rv = 0 THEN [pc |-> "inner_new", result |-> "none", wait |-> TRUE]
    ELSE [pc |-> "run_ret", result |-> "Ok", wait |-> FALSE]

fork_arm_parent_sets_too(rv) ==
    IF rv = -1
    THEN [pc |-> "run_ret", result |-> "fork failed", wait |-> FALSE]
    ELSE [pc |-> "inner_new", result |-> "none", wait |-> TRUE]

\* What the process that got `rv` from fork() does next: lines 57, 60-61, 72.
fork_arm(rv) ==
    IF rv = -1
    THEN [pc |-> "run_ret", result |-> "fork failed", wait |-> FALSE]
    ELSE IF rv = 0
    THEN [pc |-> "inner_new", result |-> "none", wait |-> TRUE]
    ELSE [pc |-> "run_ret", result |-> "Ok", wait |-> FALSE]

\* libc::fork() in a parent whose clipboard state is h, t, l: it fails (-1), or
\* the child starts as a copy of the parent's memory with the calling thread
\* alone, fork() returning 0 in the child and the child's pid in the parent.
ForkStep(h, t, l) ==
    /\ pc["parent"] = "fork"
    /\ \E rv \in {-1, 4242} :
         LET pa == fork_arm(rv)
             ca == fork_arm(0)
         IN  /\ IF rv = -1
                THEN /\ pc' = [pc EXCEPT !["parent"] = pa.pc]
                     /\ result' = [result EXCEPT !["parent"] = pa.result]
                     /\ waitArg' = [waitArg EXCEPT !["parent"] = pa.wait]
                     /\ handles' = h
                     /\ threads' = t
                ELSE /\ pc' = [pc EXCEPT !["parent"] = pa.pc, !["child"] = ca.pc]
                     /\ result' = [result EXCEPT !["parent"] = pa.result,
                                                 !["child"] = ca.result]
                     /\ waitArg' = [waitArg EXCEPT !["parent"] = pa.wait,
                                                   !["child"] = ca.wait]
                     /\ handles' = [h EXCEPT !["child"] = h["parent"]]
                     /\ threads' = [t EXCEPT !["child"] = 1]
             /\ log' = l \o << Event("fork", "parent", t["parent"]),
                                Event("fork_ret", "parent", rv) >>
    /\ UNCHANGED << flags, words, stdinData, env, parsed, wordIdx, text, stdout,
                    stderr, mode, exitCode, clipboard >>

fork_after_clipboard_new ==
    ForkStep([handles EXCEPT !["parent"] = "live"],
             [threads EXCEPT !["parent"] = threads["parent"] + 1],
             Append(log, Event("new", "parent", 0)))

\* line 55, in the Background arm: nothing of the clipboard precedes the fork
fork == ForkStep(handles, threads, log)

\* Where inner() returns to: run() in the parent (lines 38, 39 and 172), the
\* child's arm of the fork (line 61) in the child.
inner_return(p) == IF p = "parent" THEN "run_ret" ELSE "child_exit"

\* line 29: Clipboard::new(), which starts the clipboard's worker thread
inner_new(p) ==
    /\ pc[p] = "inner_new"
    /\ \E ok \in BOOLEAN :
         IF ok
         THEN /\ handles' = [handles EXCEPT ![p] = "live"]
              /\ threads' = [threads EXCEPT ![p] = threads[p] + 1]
              /\ pc' = [pc EXCEPT ![p] = "inner_set"]
              /\ UNCHANGED result
         ELSE /\ result' = [result EXCEPT ![p] = "failed to init clipboard"]
              /\ pc' = [pc EXCEPT ![p] = inner_return(p)]
              /\ UNCHANGED << handles, threads >>
    /\ log' = Append(log, Event("new", p, 0))
    /\ UNCHANGED << flags, words, stdinData, env, parsed, wordIdx, text, stdout,
                    stderr, mode, waitArg, exitCode, clipboard >>

\* lines 30-34: set the text; with wait, block until the contents are replaced
inner_set(p) ==
    /\ pc[p] = "inner_set"
    /\ \E ok \in BOOLEAN :
         IF ok
         THEN /\ clipboard' = [owner |-> p, data |-> text]
              /\ IF waitArg[p]
                 THEN /\ pc' = [pc EXCEPT ![p] = "waiting"]
                      /\ UNCHANGED << result, handles >>
                 ELSE /\ pc' = [pc EXCEPT ![p] = inner_return(p)]
                      /\ result' = [result EXCEPT ![p] = "Ok"]
                      /\ handles' = [handles EXCEPT ![p] = "dropped"]
         ELSE /\ result' = [result EXCEPT ![p] =
                               "failed to set clipboard contents"]
              /\ handles' = [handles EXCEPT ![p] = "dropped"]
              /\ pc' = [pc EXCEPT ![p] = inner_return(p)]
              /\ UNCHANGED clipboard
    /\ log' = Append(log, Event("set", p, 0))
    /\ UNCHANGED << flags, words, stdinData, env, parsed, wordIdx, text, stdout,
                    stderr, mode, waitArg, threads, exitCode >>

\* line 32-34: another party replaces the clipboard's contents; the wait ends
wait_over(p) ==
    /\ pc[p] = "waiting"
    /\ clipboard' = [owner |-> "other", data |-> << >>]
    /\ result' = [result EXCEPT ![p] = "Ok"]
    /\ handles' = [handles EXCEPT ![p] = "dropped"]
    /\ pc' = [pc EXCEPT ![p] = inner_return(p)]
    /\ log' = Append(log, Event("wait_over", p, 0))
    /\ UNCHANGED << flags, words, stdinData, env, parsed, wordIdx, text, stdout,
                    stderr, mode, waitArg, threads, exitCode >>

retcode_always_zero(res) == 0

\* lines 61-67
retcode(res) == IF res = "Ok" THEN 0 ELSE 1

\* lines 61-68: the child prints the error, if any, and exits
child_exit ==
    /\ pc["child"] = "child_exit"
    /\ IF result["child"] = "Ok"
       THEN /\ log' = Append(log, Event("exit", "child", retcode(result["child"])))
            /\ UNCHANGED stderr
       ELSE /\ stderr' = Append(stderr, Message("child", "fw clipboard error",
                                                result["child"]))
            /\ log' = log \o << Event("stderr", "child", 0),
                                Event("exit", "child", retcode(result["child"])) >>
    /\ exitCode' = [exitCode EXCEPT !["child"] = << retcode(result["child"]) >>]
    /\ pc' = [pc EXCEPT !["child"] = "exited"]
    /\ UNCHANGED << flags, words, stdinData, env, parsed, wordIdx, text, stdout,
                    mode, waitArg, handles, threads, result, clipboard >>

\* lines 178-183: run() returned to main() in process p
main(p) ==
    /\ pc[p] = "run_ret"
    /\ IF result[p] = "Ok"
       THEN /\ exitCode' = [exitCode EXCEPT ![p] = <<0>>]
            /\ log' = Append(log, Event("exit", p, 0))
            /\ UNCHANGED stderr
       ELSE /\ stderr' = Append(stderr, Message(p, "Error", result[p]))
            /\ exitCode' = [exitCode EXCEPT ![p] = <<1>>]
            /\ log' = log \o << Event("stderr", p, 0), Event("exit", p, 1) >>
    /\ pc' = [pc EXCEPT ![p] = "exited"]
    /\ UNCHANGED << flags, words, stdinData, env, parsed, wordIdx, text, stdout,
                    mode, waitArg, handles, threads, result, clipboard >>

Next ==
    \/ get_matches
    \/ next_word
    \/ read_stdin
    \/ println
    \/ clip_check
    \/ set_clipboard
    \/ fork
    \/ \E p \in Procs : inner_new(p)
    \/ \E p \in Procs : inner_set(p)
    \/ \E p \in Procs : wait_over(p)
    \/ child_exit
    \/ \E p \in Procs : main(p)

Spec == Init /\ [][Next]_vars

\* The operating system schedules every process that can run: each process
\* takes the next step of its code.  Nothing makes another party replace the
\* clipboard's contents, so wait_over is not fair.
FairSpec ==
    /\ Spec
    /\ \A p \in Procs :
         /\ WF_vars(inner_new(p))
         /\ WF_vars(inner_set(p))
         /\ WF_vars(main(p))
    /\ WF_vars(child_exit)

(***************************************************************************)
(* What the claims speak of.                                               *)
(***************************************************************************)
Happened(e, p) == \E i \in DOMAIN log : log[i].ev = e /\ log[i].proc = p
Before(i, e) == \E j \in 1..(i - 1) : log[j].ev = e
ClipboardEvents == {"new", "set", "wait_over"}
ClipboardTouched == \E i \in DOMAIN log : log[i].ev \in ClipboardEvents
ForkSucceeded == \E i \in DOMAIN log : log[i].ev = "fork_ret" /\ log[i].arg > 0
ForkFailed == \E i \in DOMAIN log : log[i].ev = "fork_ret" /\ log[i].arg = -1
ClipboardErrors == {"failed to init clipboard", "failed to set clipboard contents"}
Exited(p, code) == pc[p] = "exited" /\ exitCode[p] = <<code>>
Printed(p) == { i \in DOMAIN stderr : stderr[i].proc = p }

\* C1: in Background mode the fork precedes every Clipboard::new: the process
\* that forks has one thread and no clipboard handle, no clipboard event is
\* logged before the fork, and every handle is created after the fork by the
\* child, the process that uses it.
C1_ForkBeforeAnyClipboardHandle ==
    mode = "Background" =>
        /\ \A i \in DOMAIN log :
             log[i].ev = "fork" =>
                 /\ log[i].arg = 1
                 /\ \A j \in 1..(i - 1) : log[j].ev \notin ClipboardEvents
        /\ \A i \in DOMAIN log :
             log[i].ev \in ClipboardEvents =>
                 log[i].proc = "child" /\ Before(i, "fork")
        /\ handles["parent"] = "none"
        /\ threads["parent"] = 1
        /\ (handles["child"] # "none" => Happened("new", "child"))

C1_Witness ==
    /\ mode = "Background"
    /\ handles["child"] = "live"
    /\ threads["child"] = 2
    /\ threads["parent"] = 1

\* C2 (safety): after a successful fork in Background mode the child runs only
\* inner(text, true) and its exit: it creates its own handle, a successful set
\* waits until the contents are replaced, and it ends by exit(0) after a
\* successful set, by exit(1) after printing the error of a failed init or
\* set; it is never at a position of run() or main().
C2_ChildSetsThenExits ==
    ForkSucceeded =>
        /\ pc["child"] \in {"inner_new", "inner_set", "waiting", "child_exit",
                            "exited"}
        /\ waitArg["child"]
        /\ (handles["child"] # "none" => Happened("new", "child"))
        /\ (Happened("set", "child") => handles["child"] # "none")
        /\ (result["child"] = "Ok" =>
                Happened("set", "child") /\ Happened("wait_over", "child"))
        /\ (pc["child"] = "exited" =>
              \/ /\ result["child"] = "Ok"
                 /\ exitCode["child"] = <<0>>
                 /\ Printed("child") = {}
              \/ /\ result["child"] \in ClipboardErrors
                 /\ exitCode["child"] = <<1>>
                 /\ \E i \in DOMAIN stderr :
                      stderr[i] = Message("child", "fw clipboard error",
                                          result["child"])
                 /\ \E i \in DOMAIN log :
                      /\ log[i] = Event("exit", "child", 1)
                      /\ i > 1
                      /\ log[i - 1] = Event("stderr", "child", 0))
        /\ (exitCode["child"] # << >> => pc["child"] = "exited")

\* C2: the safety part always holds, the child reaches the set (it blocks in
\* the wait or has exited), and a child that left inner() exits.
C2_ChildTerminatesByExit ==
    /\ []C2_ChildSetsThenExits
    /\ (ForkSucceeded ~> pc["child"] \in {"waiting", "exited"})
    /\ (pc["child"] = "child_exit" ~> pc["child"] = "exited")

C2_Witness ==
    /\ Exited("child", 1)
    /\ result["child"] = "failed to set clipboard contents"
    /\ Happened("new", "child")

\* C3: after a successful fork in Background mode the parent holds Ok, never
\* creates or uses a clipboard handle, can return to main() and exit whatever
\* the child is doing, and exits with code 0 and no error message, whether the
\* child's init or set succeeds or fails.
C3_ParentReturnsOkAtOnce ==
    (mode = "Background" /\ ForkSucceeded) =>
        /\ handles["parent"] = "none"
        /\ threads["parent"] = 1
        /\ \A e \in ClipboardEvents : ~Happened(e, "parent")
        /\ result["parent"] = "Ok"
        /\ pc["parent"] \in {"run_ret", "exited"}
        /\ (pc["parent"] = "run_ret" => ENABLED main("parent"))
        /\ (pc["parent"] = "exited" =>
                exitCode["parent"] = <<0>> /\ Printed("parent") = {})

\* the parent exited 0 before the child even created its handle, and the child
\* then failed and exited 1
C3_Witness ==
    /\ mode = "Background"
    /\ Exited("parent", 0)
    /\ Exited("child", 1)
    /\ \E i, j \in DOMAIN log :
         /\ i < j
         /\ log[i] = Event("exit", "parent", 0)
         /\ log[j] = Event("new", "child", 0)

\* C4: when fork() fails, set_clipboard returns the "fork failed" error, the
\* process prints it and exits with code 1, there is no child, and no process
\* creates a clipboard handle or sets the clipboard.
C4_ForkFailureIsFatal ==
    ForkFailed =>
        /\ result["parent"] = "fork failed"
        /\ pc["parent"] \in {"run_ret", "exited"}
        /\ (pc["parent"] = "exited" =>
                /\ exitCode["parent"] = <<1>>
                /\ stderr = << Message("parent", "Error", "fork failed") >>)
        /\ pc["child"] = "absent"
        /\ exitCode["child"] = << >>
        /\ \A p \in Procs : handles[p] = "none"
        /\ ~ClipboardTouched
        /\ clipboard.owner = "other"

C4_Witness ==
    /\ ForkFailed
    /\ Exited("parent", 1)
    /\ stderr = << Message("parent", "Error", "fork failed") >>

\* C5: the text is printed before any clipboard operation and before the fork,
\* and stays printed whatever the clipboard does; a failed read of stdin exits
\* with code 1 with nothing printed; a failed init, set or fork in the parent
\* exits with code 1 with the text already printed.
C5_PrintBeforeClipboard ==
    /\ \A i \in DOMAIN log :
         log[i].ev \in ClipboardEvents \cup {"fork"} => Before(i, "print")
    /\ (Happened("print", "parent") => stdout = << text >>)
    /\ (result["parent"] = "failed to read stdin" =>
            /\ stdout = << >>
            /\ ~ClipboardTouched
            /\ ~Happened("fork", "parent")
            /\ (pc["parent"] = "exited" => exitCode["parent"] = <<1>>))
    /\ (result["parent"] \in ClipboardErrors \cup {"fork failed"} =>
            /\ stdout = << text >>
            /\ (pc["parent"] = "exited" =>
                    /\ exitCode["parent"] = <<1>>
                    /\ \A i \in DOMAIN log :
                         log[i].proc = "parent" /\ log[i].ev \in {"stderr", "exit"}
                             => Before(i, "print")))
    /\ (mode # "None" => stdout = << text >>)

C5_Witness ==
    /\ Exited("parent", 1)
    /\ result["parent"] = "failed to init clipboard"
    /\ stdout = << text >>
    /\ text # << >>

\* The claims' own words for the inputs.
NonEmptyInEnv(var) == env[var] \notin { << >>, <<"">> }
ClipboardSkipped == "no-clipboard" \in flags \/ ~NonEmptyInEnv("DISPLAY")
InputFailed == result["parent"] = "failed to read stdin"
NeverInvoked ==
    /\ ~ClipboardTouched
    /\ ~Happened("fork", "parent")
    /\ mode = "None"
    /\ pc["child"] = "absent"
    /\ \A p \in Procs : handles[p] = "none" /\ pc[p] \notin {"set_clipboard",
                                  "fork", "inner_new", "inner_set", "waiting"}
    /\ clipboard.owner = "other"

\* C6 as stated, for a command line that clap accepts: with --no-clipboard, or
\* DISPLAY unset or empty, the clipboard is never invoked, nothing forks, and
\* the run prints the output and exits 0.
C6_SkippedRunAlwaysSucceeds ==
    ClipboardSkipped =>
        /\ NeverInvoked
        /\ (pc["parent"] = "exited" /\ parsed =>
                exitCode["parent"] = <<0>> /\ stdout = << text >>)

\* C6, amended: with --no-clipboard, or DISPLAY unset or empty, the clipboard
\* is never invoked and nothing forks, whatever the other flags and variables;
\* the run prints the output and exits 0 when the command line is accepted
\* and the input is read.
C6_SkippedNeverInvokes ==
    ClipboardSkipped =>
        /\ NeverInvoked
        /\ (pc["parent"] = "exited" /\ parsed /\ ~InputFailed =>
                exitCode["parent"] = <<0>> /\ stdout = << text >>)

\* DISPLAY is set but empty, a desktop session is there, no flag is given
C6_Witness ==
    /\ flags = {}
    /\ env["DISPLAY"] = <<"">>
    /\ env["XDG_CURRENT_DESKTOP"] = <<":0">>
    /\ Exited("parent", 0)
    /\ stdout = << text >>
    /\ text # << >>

ModeOfClaim ==
    IF "no-wait" \in flags THEN "NoWait"
    ELSE IF "foreground-wait" \in flags THEN "Foreground"
    ELSE IF NonEmptyInEnv("XDG_CURRENT_DESKTOP") THEN "NoWait"
    ELSE "Background"

\* C7: a command line is accepted with at most one of the three clipboard
\* flags; when the clipboard is not skipped, run() reaches set_clipboard with
\* the mode NoWait for --no-wait, Foreground for --foreground-wait, and
\* otherwise NoWait if XDG_CURRENT_DESKTOP is non-empty, Background if not.
C7_WaitModeChoice ==
    /\ (parsed => Cardinality(flags \cap ClipboardArgs) <= 1)
    /\ (mode # "None" => mode = ModeOfClaim /\ ~ClipboardSkipped)
    /\ (parsed /\ ~ClipboardSkipped /\ ~InputFailed
          /\ pc["parent"] \notin {"start", "collect", "println", "clip_check"}
            => mode = ModeOfClaim)
    /\ (pc["parent"] \in {"inner_new", "inner_set", "waiting"} =>
            waitArg["parent"] = (ModeOfClaim = "Foreground"))

\* no flag, XDG_CURRENT_DESKTOP set but empty: Background
C7_Witness ==
    /\ flags = {}
    /\ env["XDG_CURRENT_DESKTOP"] = <<"">>
    /\ mode = "Background"
    /\ pc["parent"] = "fork"

\* The transform as the claims state it.
Fullwidth(c) ==
    IF c = 32 THEN 12288
    ELSE IF c \in 33..126 THEN c + 65248
    ELSE c

InputTaken == parsed /\ ~InputFailed /\ pc["parent"] \notin {"start", "collect"}

\* C8: every character of the output is the fullwidth form of the character of
\* the input at its place: U+3000 for the space, c + 0xFEE0 for '!'..'~', and c
\* itself for any other character.
C8_FwCharMapping ==
    InputTaken =>
        /\ (words = << >> =>
                \A i \in DOMAIN text : text[i] = Fullwidth(stdinData[i]))
        /\ (Len(words) = 1 =>
                /\ Len(text) = Len(words[1])
                /\ \A i \in DOMAIN text : text[i] = Fullwidth(words[1][i]))

\* '~', the last character of the range, is shifted
C8_Witness ==
    /\ words = << <<126>> >>
    /\ stdout = << <<65374>> >>

RECURSIVE StartOf(_)
\* where the k-th argument starts in the output: after the arguments before it
\* and one separator for each
StartOf(k) == IF k <= 1 THEN 0 ELSE StartOf(k - 1) + Len(words[k - 1]) + 1

\* C9: with positional arguments, the output is each argument transformed, in
\* order, with one U+3000 between consecutive arguments and none at the ends,
\* and standard input is not read.
C9_ArgumentsJoined ==
    (words # << >> /\ InputTaken) =>
        /\ Len(text) = StartOf(Len(words) + 1) - 1
        /\ \A k \in DOMAIN words :
             /\ \A i \in DOMAIN words[k] :
                  text[StartOf(k) + i] = Fullwidth(words[k][i])
             /\ (k > 1 => text[StartOf(k)] = WIDE_SPACE)
        /\ ~Happened("read_stdin", "parent")

\* three arguments, the second empty: two separators, side by side
C9_Witness ==
    /\ words = << <<97>>, << >>, <<97>> >>
    /\ stdout = << <<65345, 12288, 12288, 65345>> >>

\* C10: with no positional argument, the output is standard input without its
\* last character if that is a newline, every other character kept in order
\* and transformed, newlines included, which stay newlines.
C10_StdinOneNewlineStripped ==
    (words = << >> /\ InputTaken) =>
        LET n == Len(stdinData)
            m == IF n > 0 /\ stdinData[n] = NEWLINE THEN n - 1 ELSE n
        IN  /\ Len(text) = m
            /\ \A i \in 1..m :
                 /\ text[i] = Fullwidth(stdinData[i])
                 /\ (stdinData[i] = NEWLINE => text[i] = NEWLINE)
            /\ Happened("read_stdin", "parent")

\* two trailing newlines: one is left
C10_Witness ==
    /\ words = << >>
    /\ stdinData = <<97, NEWLINE, NEWLINE>>
    /\ stdout = << <<65345, NEWLINE>> >>

====
